---------------------------- MODULE Spec2Model ----------------------------
(***************************************************************************)
(* Model of the MonetDB driver's textual value codec (converter.go):       *)
(* convertToGo decodes a column text under a type tag, convertToMonet      *)
(* renders a Go value as a literal.  Texts are sequences of bytes          *)
(* (0..255); a call's outcome is a record [kind, type, val, err] whose     *)
(* kind is "ok", "err" (an error was returned) or "panic" (the call        *)
(* aborted with a run-time panic).                                         *)
(***************************************************************************)
EXTENDS Integers, Sequences, FiniteSets, TLC

VARIABLES
  toGoMappers,     \* the decode table: type tag -> converter
  toMonetMappers,  \* the encode table: Go type name -> converter
  timeFormats,     \* the layouts parseTime tries, in order
  pc,              \* where the caller and the call in progress stand
  calls,           \* how many calls the caller has made
  fn,              \* the function called: "convertToGo", "convertToMonet", "unquote"
  value,           \* the call's value argument: a text, or a Go value
  dataType,        \* convertToGo's type tag
  ret,             \* what the call returned
  fidx,            \* parseTime's position in timeFormats (1-based)
  orig,            \* the string a literal under decoding was made from
  hist             \* the first call completed: its arguments and result

vars == <<toGoMappers, toMonetMappers, timeFormats, pc, calls, fn, value,
          dataType, ret, fidx, orig, hist>>

tables == <<toGoMappers, toMonetMappers, timeFormats>>

-----------------------------------------------------------------------------
(* Bytes and text literals *)

\* The printable ASCII characters in code order, from 32; the slot of the
\* back quote (96), which a string literal cannot hold, is filled by a second space (Ord takes the first match).
AsciiChars == " !\"#$%&'()*+,-./0123456789:;<=>?@ABCDEFGHIJKLMNOPQRSTUVWXYZ[\\]^_ abcdefghijklmnopqrstuvwxyz{|}~"

Min(S) == CHOOSE m \in S : \A n \in S : m <= n

\* the code of each character
Ord ==
  [c \in {SubSeq(AsciiChars, i, i) : i \in 1..Len(AsciiChars)} |->
     31 + Min({i \in 1..Len(AsciiChars) : SubSeq(AsciiChars, i, i) = c})]

\* The bytes of an ASCII string literal.
B(str) == [i \in 1..Len(str) |-> Ord[SubSeq(str, i, i)]]

\* Go's s[lo:hi] with 0-based half-open bounds; the caller checks the bounds.
Slice(s, lo, hi) == SubSeq(s, lo + 1, hi)

SliceOK(s, lo, hi) == 0 <= lo /\ lo <= hi /\ hi <= Len(s)

From(s, lo) == SubSeq(s, lo + 1, Len(s))

HasPrefix(s, p) == Len(s) >= Len(p) /\ SubSeq(s, 1, Len(p)) = p

(* Call outcomes *)

Ok(type, val) == [kind |-> "ok", type |-> type, val |-> val, err |-> ""]

Fail(type, val, err) == [kind |-> "err", type |-> type, val |-> val, err |-> err]

PanicOut(err) == [kind |-> "panic", type |-> "nil", val |-> <<>>, err |-> err]

NoRet == [kind |-> "none", type |-> "nil", val |-> <<>>, err |-> ""]

-----------------------------------------------------------------------------
(* unicode/utf8 *)

IsCont(b) == 128 <= b /\ b <= 191

\* utf8.DecodeRuneInString: <<rune, size>>; an invalid or short encoding
\* decodes as <<RuneError, 1>>, the empty string as <<RuneError, 0>>.
DecodeRune(s) ==
  LET n == Len(s)
      bad == <<65533, 1>>
  IN  IF n = 0 THEN <<65533, 0>>
      ELSE LET b0 == s[1] IN
        IF b0 < 128 THEN <<b0, 1>>
        ELSE IF b0 < 194 THEN bad
        ELSE IF b0 < 224 THEN
          IF n >= 2 /\ IsCont(s[2]) THEN <<((b0 % 32) * 64) + (s[2] % 64), 2>>
          ELSE bad
        ELSE IF b0 < 240 THEN
          IF n >= 3 /\ IsCont(s[2]) /\ IsCont(s[3])
             /\ (b0 = 224 => s[2] >= 160) /\ (b0 = 237 => s[2] <= 159)
          THEN <<((b0 % 16) * 4096) + ((s[2] % 64) * 64) + (s[3] % 64), 3>>
          ELSE bad
        ELSE IF b0 < 245 THEN
          IF n >= 4 /\ IsCont(s[2]) /\ IsCont(s[3]) /\ IsCont(s[4])
             /\ (b0 = 240 => s[2] >= 144) /\ (b0 = 244 => s[2] <= 143)
          THEN <<((b0 % 8) * 262144) + ((s[2] % 64) * 4096) + ((s[3] % 64) * 64)
                 + (s[4] % 64), 4>>
          ELSE bad
        ELSE bad

\* utf8.RuneStart
RuneStart(b) == ~IsCont(b)

\* utf8.DecodeLastRuneInString
DecodeLastRune(s) ==
  LET end == Len(s) IN
  IF end = 0 THEN <<65533, 0>>
  ELSE IF s[end] < 128 THEN <<s[end], 1>>
  ELSE LET lim == IF end - 4 < 0 THEN 0 ELSE end - 4
           \* 0-based start: the nearest rune start in [lim, end-2], else lim-1
           cands == {k \in lim..(end - 2) : RuneStart(s[k + 1])}
           st0 == IF cands = {} THEN lim - 1
                  ELSE CHOOSE k \in cands : \A j \in cands : j <= k
           start == IF st0 < 0 THEN 0 ELSE st0
           d == DecodeRune(Slice(s, start, end))
       IN  IF start + d[2] # end THEN <<65533, 1>> ELSE d

\* utf8.ValidRune
ValidRune(r) == (0 <= r /\ r < 55296) \/ (57343 < r /\ r <= 1114111)

\* utf8.EncodeRune
EncodeRune(r) ==
  IF 0 <= r /\ r < 128 THEN <<r>>
  ELSE IF 0 <= r /\ r < 2048 THEN <<192 + (r \div 64), 128 + (r % 64)>>
  ELSE IF ~ValidRune(r) THEN <<239, 191, 189>>
  ELSE IF r < 65536 THEN
    <<224 + (r \div 4096), 128 + ((r \div 64) % 64), 128 + (r % 64)>>
  ELSE <<240 + (r \div 262144), 128 + ((r \div 4096) % 64),
         128 + ((r \div 64) % 64), 128 + (r % 64)>>

\* unicode.IsSpace
IsSpace(r) ==
  r \in {9, 10, 11, 12, 13, 32, 133, 160, 5760, 8232, 8233, 8239, 8287, 12288}
        \cup (8192..8202)

(* strings *)

RECURSIVE TrimLeftSpace(_)
TrimLeftSpace(s) ==
  IF s = <<>> THEN s
  ELSE LET d == DecodeRune(s) IN
       IF IsSpace(d[1]) THEN TrimLeftSpace(From(s, d[2])) ELSE s

RECURSIVE TrimRightSpace(_)
TrimRightSpace(s) ==
  IF s = <<>> THEN s
  ELSE LET Cut(d) == IF IsSpace(d[1])
                      THEN TrimRightSpace(Slice(s, 0, Len(s) - d[2])) ELSE s
       IN  Cut(DecodeLastRune(s))

\* strings.TrimSpace
TrimSpace(s) == TrimRightSpace(TrimLeftSpace(s))

\* strings.Replace(s, <<old>>, new, -1) for a one-byte old
RECURSIVE ReplaceAll(_, _, _)
ReplaceAll(s, old, new) ==
  IF s = <<>> THEN <<>>
  ELSE (IF s[1] = old THEN new ELSE <<s[1]>>) \o ReplaceAll(Tail(s), old, new)

\* the lower-case form of an ASCII letter, as strconv and time fold case
Lower(b) == IF 65 <= b /\ b <= 90 THEN b + 32 ELSE b

LowerAll(s) == [i \in 1..Len(s) |-> Lower(s[i])]

-----------------------------------------------------------------------------
(* strconv.UnquoteChar and the unescaper *)

IsHex(b) == (48 <= b /\ b <= 57) \/ (97 <= b /\ b <= 102) \/ (65 <= b /\ b <= 70)

\* strconv's unhex
Unhex(b) == IF b <= 57 THEN b - 48 ELSE IF b >= 97 THEN b - 87 ELSE b - 55

RECURSIVE HexVal(_)
HexVal(s) == IF s = <<>> THEN 0 ELSE (HexVal(SubSeq(s, 1, Len(s) - 1)) * 16) + Unhex(s[Len(s)])

ShortEscapes == B("abfnrtv")

ShortEscapeValue(c) ==
  CASE c = 97 -> 7 [] c = 98 -> 8 [] c = 102 -> 12 [] c = 110 -> 10
    [] c = 114 -> 13 [] c = 116 -> 9 [] c = 118 -> 11

UQOk(v, mb, tail) == [ok |-> TRUE, value |-> v, multibyte |-> mb, tail |-> tail]

UQErr == [ok |-> FALSE, value |-> 0, multibyte |-> FALSE, tail |-> <<>>]

\* strconv.UnquoteChar(s, quote): the first character or escape of s.
UnquoteChar(s, quote) ==
  IF Len(s) = 0 THEN UQErr
  ELSE LET c0 == s[1] IN
    IF c0 = quote /\ (quote = 39 \/ quote = 34) THEN UQErr
    ELSE IF c0 >= 128 THEN
      LET d == DecodeRune(s) IN UQOk(d[1], TRUE, From(s, d[2]))
    ELSE IF c0 # 92 THEN UQOk(c0, FALSE, From(s, 1))
    ELSE IF Len(s) <= 1 THEN UQErr
    ELSE LET c == s[2]
             t == From(s, 2)
    IN IF \E k \in 1..Len(ShortEscapes) : ShortEscapes[k] = c
         THEN UQOk(ShortEscapeValue(c), FALSE, t)
       ELSE IF c \in {120, 117, 85} THEN
         LET n == IF c = 120 THEN 2 ELSE IF c = 117 THEN 4 ELSE 8 IN
         IF Len(t) < n THEN UQErr
         ELSE IF \E j \in 1..n : ~IsHex(t[j]) THEN UQErr
         ELSE IF c = 120 THEN UQOk(HexVal(SubSeq(t, 1, 2)), FALSE, From(t, 2))
         ELSE IF c = 117 THEN
           LET v == HexVal(SubSeq(t, 1, 4)) IN
           IF ValidRune(v) THEN UQOk(v, TRUE, From(t, 4)) ELSE UQErr
         ELSE
           \* eight digits: the high four above 0x10 already exceed MaxRune
           LET hi == HexVal(SubSeq(t, 1, 4))
               lo == HexVal(SubSeq(t, 5, 8))
           IN IF hi <= 16 /\ ValidRune((hi * 65536) + lo)
              THEN UQOk((hi * 65536) + lo, TRUE, From(t, 8)) ELSE UQErr
       ELSE IF 48 <= c /\ c <= 55 THEN
         IF Len(t) < 2 THEN UQErr
         ELSE IF \E j \in 1..2 : t[j] < 48 \/ t[j] > 55 THEN UQErr
         ELSE LET v == ((c - 48) * 64) + ((t[1] - 48) * 8) + (t[2] - 48) IN
              IF v > 255 THEN UQErr ELSE UQOk(v, FALSE, From(t, 2))
       ELSE IF c = 92 THEN UQOk(92, FALSE, t)
       ELSE IF c = 39 \/ c = 34 THEN
         IF c # quote THEN UQErr ELSE UQOk(c, FALSE, t)
       ELSE UQErr

\* contains(s, c)
contains(s, c) == \E i \in 1..Len(s) : s[i] = c

\* The loop of unquote: buf grows by one decoded character per iteration.
RECURSIVE unquoteLoop(_, _)
unquoteLoop(s, buf) ==
  IF Len(s) = 0 THEN Ok("string", buf)
  ELSE LET Step(u) ==
             IF ~u.ok THEN Fail("string", <<>>, "invalid syntax")
             ELSE unquoteLoop(u.tail,
                    IF u.value < 128 \/ ~u.multibyte
                    THEN Append(buf, u.value % 256)
                    ELSE buf \o EncodeRune(u.value))
       IN  Step(UnquoteChar(s, 39))

\* unquote(s)
unquote(s) == IF ~contains(s, 92) THEN Ok("string", s) ELSE unquoteLoop(s, <<>>)

\* stripNoQuote(v)
stripNoQuote(v) == unquote(TrimSpace(Slice(v, 0, Len(v))))

\* strip(v): v[1 : len(v)-1] panics when len(v) < 2
strip(v) ==
  IF ~SliceOK(v, 1, Len(v) - 1) THEN PanicOut("slice bounds out of range")
  ELSE unquote(TrimSpace(Slice(v, 1, Len(v) - 1)))

\* toByteArray(v)
toByteArray(v) ==
  IF ~SliceOK(v, 1, Len(v) - 1) THEN PanicOut("slice bounds out of range")
  ELSE Ok("[]uint8", Slice(v, 1, Len(v) - 1))

\* toQuotedString on the text s that fmt.Sprintf("%v", v) gave
quoteText(s) ==
  <<39>> \o ReplaceAll(ReplaceAll(s, 92, <<92, 92>>), 39, <<92, 39>>) \o <<39>>

-----------------------------------------------------------------------------
(* strconv.ParseInt.  TLC's integers are 32 bits wide, so magnitudes are      *)
(* kept as sequences of decimal digits (most significant first, no leading   *)
(* zero, <<0>> for zero) and compared digit by digit.                        *)

IsDigit(b) == 48 <= b /\ b <= 57

RECURSIVE Norm(_)
Norm(d) == IF Len(d) > 1 /\ d[1] = 0 THEN Norm(Tail(d)) ELSE d

\* a < b for normalised magnitudes
RECURSIVE LexLess(_, _)
LexLess(a, b) ==
  IF a = <<>> THEN FALSE
  ELSE IF a[1] # b[1] THEN a[1] < b[1] ELSE LexLess(Tail(a), Tail(b))

MagLess(a, b) == Len(a) < Len(b) \/ (Len(a) = Len(b) /\ LexLess(a, b))

\* The decimal digits of a numeral.
D(str) == [i \in 1..Len(str) |-> Ord[SubSeq(str, i, i)] - 48]

\* 1 << k, for the shifts ParseUint and ParseInt make at the four bit sizes
Pow2 ==
  (7 :> D("128")) @@ (8 :> D("256")) @@ (15 :> D("32768")) @@ (16 :> D("65536"))
  @@ (31 :> D("2147483648")) @@ (32 :> D("4294967296"))
  @@ (63 :> D("9223372036854775808")) @@ (64 :> D("18446744073709551616"))

\* strconv.ParseUint(s, 10, bitSize), read byte by byte: a byte that is no
\* digit is a syntax error, a prefix above 1<<bitSize - 1 a range error,
\* whichever comes first.
RECURSIVE ParseUintLoop(_, _, _)
ParseUintLoop(s, n, bitSize) ==
  IF s = <<>> THEN [err |-> "", un |-> n]
  ELSE IF ~IsDigit(s[1]) THEN [err |-> "invalid syntax", un |-> <<0>>]
  ELSE LET n1 == Norm(Append(n, s[1] - 48)) IN
       IF ~MagLess(n1, Pow2[bitSize])
       THEN [err |-> "value out of range", un |-> Pow2[bitSize]]
       ELSE ParseUintLoop(Tail(s), n1, bitSize)

ParseUint(s, bitSize) ==
  IF s = <<>> THEN [err |-> "invalid syntax", un |-> <<0>>]
  ELSE ParseUintLoop(s, <<0>>, bitSize)

IntVal(neg, mag) == [neg |-> neg /\ mag # <<0>>, mag |-> mag]

ZeroInt == IntVal(FALSE, <<0>>)

\* strconv.ParseInt(s, 10, bitSize): [err, i]
ParseInt(s, bitSize) ==
  IF s = <<>> THEN [err |-> "invalid syntax", i |-> ZeroInt]
  ELSE LET neg == s[1] = 45
           Range(u, cutoff) ==
             IF u.err = "invalid syntax" THEN [err |-> u.err, i |-> ZeroInt]
             ELSE IF ~neg /\ ~MagLess(u.un, cutoff)
               THEN [err |-> "value out of range", i |-> ZeroInt]
             ELSE IF neg /\ MagLess(cutoff, u.un)
               THEN [err |-> "value out of range", i |-> ZeroInt]
             ELSE [err |-> "", i |-> IntVal(neg, u.un)]
       IN Range(ParseUint(IF s[1] = 43 \/ s[1] = 45 THEN Tail(s) ELSE s, bitSize),
                Pow2[bitSize - 1])

\* toInt8, toInt16, toInt32, toInt64: r stays 0 when ParseInt fails
toIntN(v, bitSize, type) ==
  LET Result(p) == IF p.err = "" THEN Ok(type, p.i) ELSE Fail(type, ZeroInt, p.err)
  IN  Result(ParseInt(v, bitSize))

\* toInt8 with the bit size of toInt16
toInt8Wide(v) == toIntN(v, 16, "int8")

toInt8(v) == toIntN(v, 8, "int8")

toInt16(v) == toIntN(v, 16, "int16")

toInt32(v) == toIntN(v, 32, "int32")

toInt64(v) == toIntN(v, 64, "int64")

(* strconv.ParseBool *)

TrueTokens == {B("1"), B("t"), B("T"), B("TRUE"), B("true"), B("True")}

FalseTokens == {B("0"), B("f"), B("F"), B("FALSE"), B("false"), B("False")}

\* a toBool that ignores the case of the letters
toBoolAnyCase(v) ==
  IF LowerAll(v) \in {B("1"), B("t"), B("true")} THEN Ok("bool", TRUE)
  ELSE IF LowerAll(v) \in {B("0"), B("f"), B("false")} THEN Ok("bool", FALSE)
  ELSE Fail("bool", FALSE, "invalid syntax")

\* toBool(v)
toBool(v) ==
  IF v \in TrueTokens THEN Ok("bool", TRUE)
  ELSE IF v \in FalseTokens THEN Ok("bool", FALSE)
  ELSE Fail("bool", FALSE, "invalid syntax")

-----------------------------------------------------------------------------
(* strconv.ParseFloat.  A float is kept as the exact number the text      *)
(* denotes: sign, significant digits and exponent (0.mant * base^exp);     *)
(* rounding to the nearest binary float is not modelled, and overflow is   *)
(* decided against the first digits of the largest finite value.           *)

\* length of the mantissa readFloat scans: digits, underscores and one point
RECURSIVE MantSpan(_, _, _)
MantSpan(s, hex, sawdot) ==
  IF s = <<>> THEN 0
  ELSE IF s[1] = 95 THEN 1 + MantSpan(Tail(s), hex, sawdot)
  ELSE IF s[1] = 46 THEN (IF sawdot THEN 0 ELSE 1 + MantSpan(Tail(s), hex, TRUE))
  ELSE IF IsDigit(s[1]) \/ (hex /\ IsHex(s[1])) THEN 1 + MantSpan(Tail(s), hex, sawdot)
  ELSE 0

RECURSIVE DigitSpan(_)
DigitSpan(s) ==
  IF s # <<>> /\ (IsDigit(s[1]) \/ s[1] = 95) THEN 1 + DigitSpan(Tail(s)) ELSE 0

Without(s, b) == SelectSeq(s, LAMBDA x : x # b)

\* strconv's underscoreOK on the text after its sign; prev is the class of
\* the previous character: "0" digit, "_" underscore, "!" other, "^" start
RECURSIVE UnderscoreScan(_, _, _)
UnderscoreScan(s, prev, hex) ==
  IF s = <<>> THEN prev # "_"
  ELSE IF IsDigit(s[1]) \/ (hex /\ IsHex(s[1])) THEN UnderscoreScan(Tail(s), "0", hex)
  ELSE IF s[1] = 95 THEN prev = "0" /\ UnderscoreScan(Tail(s), "_", hex)
  ELSE prev # "_" /\ UnderscoreScan(Tail(s), "!", hex)

underscoreOK(s) ==
  LET t == IF s # <<>> /\ s[1] \in {43, 45} THEN Tail(s) ELSE s
      pre == Len(t) >= 2 /\ t[1] = 48 /\ Lower(t[2]) \in {98, 111, 120}
  IN  IF pre THEN UnderscoreScan(From(t, 2), "0", Lower(t[2]) = 120)
      ELSE UnderscoreScan(t, "^", FALSE)

\* the exponent value, capped as readFloat caps it
RECURSIVE ExpVal(_, _)
ExpVal(s, e) ==
  IF s = <<>> THEN e
  ELSE ExpVal(Tail(s), IF e < 10000 THEN (e * 10) + (s[1] - 48) ELSE e)

RECURSIVE LeadZeros(_)
LeadZeros(d) == IF d # <<>> /\ d[1] = 0 THEN 1 + LeadZeros(Tail(d)) ELSE 0

RECURSIVE DropTrailZeros(_)
DropTrailZeros(d) ==
  IF d # <<>> /\ d[Len(d)] = 0 THEN DropTrailZeros(SubSeq(d, 1, Len(d) - 1)) ELSE d

\* a < b for digit strings read as fractions 0.a and 0.b
RECURSIVE FracLess(_, _)
FracLess(a, b) ==
  IF b = <<>> THEN FALSE
  ELSE IF a = <<>> THEN \E i \in 1..Len(b) : b[i] # 0
  ELSE IF a[1] # b[1] THEN a[1] < b[1] ELSE FracLess(Tail(a), Tail(b))

BitLen(h) == IF h >= 8 THEN 4 ELSE IF h >= 4 THEN 3 ELSE IF h >= 2 THEN 2 ELSE 1

FloatVal(class, neg, mant, exp) ==
  [class |-> class, neg |-> neg, mant |-> mant, exp |-> exp]

ZeroFloat == FloatVal("dec", FALSE, <<>>, 0)

\* the leading digits of the least numbers that round to infinity:
\* 1.797693134862315807937e308 (float64) and 3.4028235677973366e38 (float32)
OverflowDigits ==
  (64 :> D("1797693134862315807937")) @@ (32 :> D("34028235677973366"))

\* whether 0.mant * 10^exp rounds beyond the largest finite float
DecOverflows(mant, exp, bitSize) ==
  LET lim == IF bitSize = 64 THEN 309 ELSE 39
  IN  mant # <<>>
      /\ (exp > lim \/ (exp = lim /\ ~FracLess(mant, OverflowDigits[bitSize])))

\* whether 0x0.mant * 2^exp (exp counted in bits) reaches 2^1024 (2^128)
HexOverflows(mant, exp, bitSize) ==
  mant # <<>> /\ exp - (4 - BitLen(mant[1])) > (IF bitSize = 64 THEN 1024 ELSE 128)

FloatSyntax == [err |-> "invalid syntax", f |-> ZeroFloat]

\* the value or range error of 0.digs * base^exp
floatResult(hex, neg, digs, exp, bitSize) ==
  IF (hex /\ HexOverflows(digs, exp, bitSize))
     \/ (~hex /\ DecOverflows(digs, exp, bitSize))
  THEN [err |-> "value out of range", f |-> FloatVal("inf", neg, <<>>, 0)]
  ELSE [err |-> "",
        f |-> FloatVal(IF hex THEN "hex" ELSE "dec", neg, digs,
                       IF digs = <<>> THEN 0 ELSE exp)]

\* all: the mantissa's digits; dot: the place of its point; e: the exponent
floatScaled(hex, neg, all, dot, e, bitSize) ==
  floatResult(hex, neg, DropTrailZeros(From(all, LeadZeros(all))),
              IF hex THEN (4 * ((dot - 1) - LeadZeros(all))) + e
              ELSE ((dot - 1) - LeadZeros(all)) + e,
              bitSize)

\* clean: the mantissa without its underscores
floatValue(hex, neg, clean, e, bitSize) ==
  floatScaled(hex, neg,
              [i \in 1..Len(Without(clean, 46)) |-> Unhex(Without(clean, 46)[i])],
              Min({i \in 1..Len(clean) : clean[i] = 46} \cup {Len(clean) + 1}),
              e, bitSize)

\* the exponent's digits in rest, the text from the exponent letter on
ExpDigits(rest) ==
  IF Len(rest) >= 2 /\ rest[2] \in {43, 45} THEN From(rest, 2) ELSE From(rest, 1)

ExpOK(r3) == r3 # <<>> /\ IsDigit(r3[1]) /\ DigitSpan(r3) = Len(r3)

\* strconv's readFloat on the mantissa and the text after it, and the
\* underscore check ParseFloat makes on the whole text
readFloat(s, hex, neg, mant, rest, bitSize) ==
  LET hasExp == rest # <<>> /\ Lower(rest[1]) = (IF hex THEN 112 ELSE 101) IN
  IF ~\E i \in 1..Len(mant) : IsDigit(mant[i]) \/ (hex /\ IsHex(mant[i]))
    THEN FloatSyntax
  ELSE IF hasExp /\ ~ExpOK(ExpDigits(rest)) THEN FloatSyntax
  ELSE IF ~hasExp /\ (rest # <<>> \/ hex) THEN FloatSyntax
  ELSE IF contains(s, 95) /\ ~underscoreOK(s) THEN FloatSyntax
  ELSE floatValue(hex, neg, Without(mant, 95),
                  IF hasExp
                  THEN (IF Len(rest) >= 2 /\ rest[2] = 45 THEN -1 ELSE 1)
                       * ExpVal(Without(ExpDigits(rest), 95), 0)
                  ELSE 0,
                  bitSize)

\* m: the text after the sign and the 0x prefix
readMantissa(s, hex, neg, m, bitSize) ==
  readFloat(s, hex, neg, SubSeq(m, 1, MantSpan(m, hex, FALSE)),
            From(m, MantSpan(m, hex, FALSE)), bitSize)

HexPrefix(t) == Len(t) >= 2 /\ t[1] = 48 /\ Lower(t[2]) = 120

\* t: the text after the sign; infinities and NaN come first
parseFloatPrefix(s, neg, t, bitSize) ==
  IF LowerAll(t) = B("inf") \/ LowerAll(t) = B("infinity")
    THEN [err |-> "", f |-> FloatVal("inf", neg, <<>>, 0)]
  ELSE IF LowerAll(s) = B("nan")
    THEN [err |-> "", f |-> FloatVal("nan", FALSE, <<>>, 0)]
  ELSE readMantissa(s, HexPrefix(t), neg,
                    IF HexPrefix(t) THEN From(t, 2) ELSE t, bitSize)

\* strconv.ParseFloat(s, bitSize): [err, f]
ParseFloat(s, bitSize) ==
  IF s = <<>> THEN FloatSyntax
  ELSE parseFloatPrefix(s, s[1] = 45,
                        IF s[1] \in {43, 45} THEN Tail(s) ELSE s, bitSize)

\* toDouble(v): the parsed value is returned together with any error
toDouble(v) ==
  LET Result(p) ==
        IF p.err = "" THEN Ok("float64", p.f) ELSE Fail("float64", p.f, p.err)
  IN  Result(ParseFloat(v, 64))

\* toFloat(v): r stays 0 when ParseFloat fails
toFloat(v) ==
  LET Result(p) ==
        IF p.err = "" THEN Ok("float32", p.f) ELSE Fail("float32", ZeroFloat, p.err)
  IN  Result(ParseFloat(v, 32))

-----------------------------------------------------------------------------
(* time.Parse, for the standard chunks the six layouts of timeFormats use *)

\* the pieces of the reference time that the layouts of timeFormats hold
Std ==
  [LongYear |-> B("2006"), NumTZ |-> B("-0700"), Month |-> B("Jan"),
   WeekDay |-> B("Mon"), TZ |-> B("MST"), ZeroMonth |-> B("01"),
   ZeroDay |-> B("02"), ZeroMinute |-> B("04"), ZeroSecond |-> B("05"),
   Hour |-> B("15"), Day |-> B("2")]

\* the reference-time pieces a layout may hold, longest first where one is a
\* prefix of another
StdChunks ==
  <<Std.LongYear, Std.NumTZ, Std.Month, Std.WeekDay, Std.TZ, Std.ZeroMonth,
    Std.ZeroDay, Std.ZeroMinute, Std.ZeroSecond, Std.Hour, Std.Day>>

StdAt(layout) ==
  LET First(hits) == IF hits = {} THEN <<>> ELSE StdChunks[Min(hits)]
  IN  First({k \in 1..Len(StdChunks) : HasPrefix(layout, StdChunks[k])})

\* time's nextStdChunk: [prefix, std, suffix]; std is <<>> when none is left
RECURSIVE nextStdChunk(_, _)
nextStdChunk(layout, prefix) ==
  IF layout = <<>> THEN [prefix |-> prefix, std |-> <<>>, suffix |-> <<>>]
  ELSE LET Chunk(std) ==
             IF std # <<>>
             THEN [prefix |-> prefix, std |-> std, suffix |-> From(layout, Len(std))]
             ELSE nextStdChunk(Tail(layout), Append(prefix, layout[1]))
       IN  Chunk(StdAt(layout))

RECURSIVE cutspace(_)
cutspace(s) == IF s # <<>> /\ s[1] = 32 THEN cutspace(Tail(s)) ELSE s

\* time's skip(value, prefix): [ok, value]; a run of spaces in the layout
\* matches any run of spaces in the value
RECURSIVE skip(_, _)
skip(val, prefix) ==
  IF prefix = <<>> THEN [ok |-> TRUE, value |-> val]
  ELSE IF prefix[1] = 32 THEN
    IF val # <<>> /\ val[1] # 32 THEN [ok |-> FALSE, value |-> val]
    ELSE skip(cutspace(val), cutspace(prefix))
  ELSE IF val = <<>> \/ val[1] # prefix[1] THEN [ok |-> FALSE, value |-> val]
  ELSE skip(Tail(val), Tail(prefix))

isDigitAt(s, i) == Len(s) > i /\ IsDigit(s[i + 1])

\* time's getnum(s, fixed): [ok, n, rest]
getnum(s, fixed) ==
  IF ~isDigitAt(s, 0) THEN [ok |-> FALSE, n |-> 0, rest |-> s]
  ELSE IF ~isDigitAt(s, 1) THEN
    IF fixed THEN [ok |-> FALSE, n |-> 0, rest |-> s]
    ELSE [ok |-> TRUE, n |-> s[1] - 48, rest |-> Tail(s)]
  ELSE [ok |-> TRUE, n |-> ((s[1] - 48) * 10) + (s[2] - 48), rest |-> From(s, 2)]

RECURSIVE DecVal(_, _)
DecVal(s, acc) == IF s = <<>> THEN acc ELSE DecVal(Tail(s), (acc * 10) + (s[1] - 48))

shortDayNames == <<B("Sun"), B("Mon"), B("Tue"), B("Wed"), B("Thu"), B("Fri"), B("Sat")>>

shortMonthNames ==
  <<B("Jan"), B("Feb"), B("Mar"), B("Apr"), B("May"), B("Jun"),
    B("Jul"), B("Aug"), B("Sep"), B("Oct"), B("Nov"), B("Dec")>>

\* time's lookup(tab, val): the index of the first name val starts with,
\* letter case ignored; 0 when there is none
lookup(tab, val) ==
  LET First(hits) == IF hits = {} THEN 0 ELSE Min(hits)
  IN  First({k \in 1..Len(tab) :
               Len(val) >= Len(tab[k])
               /\ LowerAll(SubSeq(val, 1, Len(tab[k]))) = LowerAll(tab[k])})

\* time's parseSignedOffset: the length of a leading +hh or -hh, else 0
parseSignedOffset(val) ==
  IF val = <<>> \/ val[1] \notin {43, 45} THEN 0
  ELSE LET k == Min({j \in 0..Len(val) - 1 : ~isDigitAt(Tail(val), j)})
           x == Norm([i \in 1..k |-> val[i + 1] - 48])
       IN IF k = 0 THEN 0
          ELSE IF MagLess(<<2, 3>>, x) THEN 0
          ELSE k + 1

\* time's parseTimeZone: the length of the zone abbreviation val starts
\* with, 0 when it starts with none
parseTimeZone(val) ==
  LET isUp(i) == Len(val) >= i /\ 65 <= val[i] /\ val[i] <= 90
      nUpper == Min({k \in 0..6 : k = 6 \/ ~isUp(k + 1)})
  IN
  IF Len(val) < 3 THEN 0
  ELSE IF HasPrefix(val, B("ChST")) \/ HasPrefix(val, B("MeST")) THEN 4
  ELSE IF HasPrefix(val, B("GMT")) THEN 3 + parseSignedOffset(From(val, 3))
  ELSE IF val[1] \in {43, 45} THEN parseSignedOffset(val)
  ELSE IF nUpper = 5 /\ val[5] = 84 THEN 5
  ELSE IF nUpper = 4 /\ (val[4] = 84 \/ HasPrefix(val, B("WITA"))) THEN 4
  ELSE IF nUpper = 3 THEN 3
  ELSE 0

isLeap(year) == year % 4 = 0 /\ (year % 100 # 0 \/ year % 400 = 0)

\* time's daysIn(month, year)
daysIn(month, year) ==
  IF month = 2 THEN (IF isLeap(year) THEN 29 ELSE 28)
  ELSE IF month \in {4, 6, 9, 11} THEN 30 ELSE 31

\* the fields Parse collects; month and day are -1 until a chunk sets them,
\* zoff is the zone offset in seconds and zset whether the text gave one
ZeroFields ==
  [year |-> 0, month |-> -1, day |-> -1, hour |-> 0, min |-> 0, sec |-> 0,
   nsec |-> 0, zset |-> FALSE, zoff |-> 0, utc |-> FALSE, zname |-> <<>>]

PErr(e) == [err |-> e, f |-> ZeroFields, value |-> <<>>]

POk(f, val) == [err |-> "", f |-> f, value |-> val]

\* Std.ZeroMonth: g is the number read
chunkMonth(f, g) ==
  IF ~g.ok THEN PErr("cannot parse")
  ELSE IF g.n <= 0 \/ 12 < g.n THEN PErr("month out of range")
  ELSE POk([f EXCEPT !.month = g.n], g.rest)

\* Std.Day, Std.ZeroDay: the day is checked against the month at the end
chunkDay(f, g) ==
  IF ~g.ok THEN PErr("cannot parse") ELSE POk([f EXCEPT !.day = g.n], g.rest)

\* Std.Hour
chunkHour(f, g) ==
  IF ~g.ok THEN PErr("cannot parse")
  ELSE IF 24 <= g.n THEN PErr("hour out of range")
  ELSE POk([f EXCEPT !.hour = g.n], g.rest)

\* Std.ZeroMinute
chunkMinute(f, g) ==
  IF ~g.ok THEN PErr("cannot parse")
  ELSE IF 60 <= g.n THEN PErr("minute out of range")
  ELSE POk([f EXCEPT !.min = g.n], g.rest)

\* the fractional second of n - 1 bytes at the front of rest, in nanoseconds
chunkFraction(f, sec, rest, n) ==
  LET Nanos(digs) ==
        DecVal([i \in 1..9 |-> IF i <= Len(digs) THEN digs[i] ELSE 48], 0)
  IN  POk([f EXCEPT !.sec = sec,
                    !.nsec = Nanos(SubSeq(rest, 2, IF n > 10 THEN 10 ELSE n - 1))],
          From(rest, n - 1))

\* Std.ZeroSecond, and a fractional second in the text that the layout does
\* not name
chunkSecond(f, g) ==
  IF ~g.ok THEN PErr("cannot parse")
  ELSE IF 60 <= g.n THEN PErr("second out of range")
  ELSE IF Len(g.rest) >= 2 /\ g.rest[1] \in {44, 46} /\ isDigitAt(g.rest, 1)
    THEN chunkFraction(f, g.n, g.rest,
                       1 + Min({j \in 1..Len(g.rest) : ~isDigitAt(g.rest, j)}))
  ELSE POk([f EXCEPT !.sec = g.n], g.rest)

\* Std.NumTZ: hr and mm are the numbers read after the sign
chunkNumTZ(f, val, hr, mm) ==
  IF ~hr.ok \/ ~mm.ok THEN PErr("cannot parse")
  ELSE IF hr.n > 24 THEN PErr("time zone offset hour out of range")
  ELSE IF mm.n > 60 THEN PErr("time zone offset minute out of range")
  ELSE IF val[1] = 43
    THEN POk([f EXCEPT !.zset = TRUE, !.zoff = ((hr.n * 60) + mm.n) * 60],
             From(val, 5))
  ELSE IF val[1] = 45
    THEN POk([f EXCEPT !.zset = TRUE, !.zoff = -(((hr.n * 60) + mm.n) * 60)],
             From(val, 5))
  ELSE PErr("cannot parse")

\* Std.TZ: n is the length of the abbreviation
chunkTZ(f, val, n) ==
  IF n = 0 THEN PErr("cannot parse")
  ELSE POk([f EXCEPT !.zname = SubSeq(val, 1, n)], From(val, n))

\* Std.Month: k is the index of the month's name
chunkMonthName(f, val, k) ==
  IF k = 0 THEN PErr("cannot parse")
  ELSE POk([f EXCEPT !.month = k], From(val, 3))

\* one standard chunk of the layout read off the front of val
parseChunk(std, f, val) ==
  IF std = Std.LongYear THEN
    IF Len(val) < 4 \/ \E i \in 1..4 : ~IsDigit(val[i]) THEN PErr("cannot parse")
    ELSE POk([f EXCEPT !.year = DecVal(SubSeq(val, 1, 4), 0)], From(val, 4))
  ELSE IF std = Std.ZeroMonth THEN chunkMonth(f, getnum(val, TRUE))
  ELSE IF std = Std.ZeroDay \/ std = Std.Day
    THEN chunkDay(f, getnum(val, std = Std.ZeroDay))
  ELSE IF std = Std.Hour THEN chunkHour(f, getnum(val, FALSE))
  ELSE IF std = Std.ZeroMinute THEN chunkMinute(f, getnum(val, TRUE))
  ELSE IF std = Std.ZeroSecond THEN chunkSecond(f, getnum(val, TRUE))
  ELSE IF std = Std.NumTZ THEN
    IF Len(val) < 5 THEN PErr("cannot parse")
    ELSE chunkNumTZ(f, val, getnum(SubSeq(val, 2, 3), TRUE),
                    getnum(SubSeq(val, 4, 5), TRUE))
  ELSE IF std = Std.TZ THEN
    IF HasPrefix(val, B("UTC")) THEN POk([f EXCEPT !.utc = TRUE], From(val, 3))
    ELSE chunkTZ(f, val, parseTimeZone(val))
  ELSE IF std = Std.WeekDay THEN
    IF lookup(shortDayNames, val) = 0 THEN PErr("cannot parse")
    ELSE POk(f, From(val, 3))
  ELSE \* Std.Month
    chunkMonthName(f, val, lookup(shortMonthNames, val))

\* the loop of time.Parse over the layout's chunks: the next chunk c of the
\* layout, the text sk after c's prefix, the chunk's result r
RECURSIVE parseLoop(_, _, _)

parseLoopNext(c, r) ==
  IF r.err # "" THEN r ELSE parseLoop(c.suffix, r.f, r.value)

parseLoopChunk(c, f, sk) ==
  IF ~sk.ok THEN PErr("cannot parse")
  ELSE IF c.std = <<>> THEN
    (IF sk.value # <<>> THEN PErr("extra text") ELSE POk(f, <<>>))
  ELSE parseLoopNext(c, parseChunk(c.std, f, sk.value))

parseLoopSkip(c, f, val) == parseLoopChunk(c, f, skip(val, c.prefix))

parseLoop(layout, f, val) == parseLoopSkip(nextStdChunk(layout, <<>>), f, val)

\* the date Parse builds at its end: an absent month or day is 1, and the
\* day must exist in the month
parseDate(r, month, day) ==
  IF r.err # "" THEN [err |-> r.err, t |-> ZeroFields]
  ELSE IF day < 1 \/ day > daysIn(month, r.f.year)
    THEN [err |-> "day out of range", t |-> ZeroFields]
  ELSE [err |-> "", t |-> [r.f EXCEPT !.month = month, !.day = day]]

parseFields(r) ==
  parseDate(r, IF r.f.month < 0 THEN 1 ELSE r.f.month,
            IF r.f.day < 0 THEN 1 ELSE r.f.day)

\* time.Parse(layout, value): [err, t]; t is the wall clock read and its zone
timeParse(layout, val) == parseFields(parseLoop(layout, ZeroFields, val))

-----------------------------------------------------------------------------
(* The decode table and convertToGo *)

\* the tag constants of the decode table; a full name or alias is a constant
\* whose value is the canonical tag
mdb ==
  [CHAR |-> "char", VARCHAR |-> "varchar", CLOB |-> "clob", BLOB |-> "blob",
   DECIMAL |-> "decimal", DOUBLE |-> "double",
   CHARACTER |-> "char", CHARACTER_VARYING |-> "varchar",
   CHARACHTER_LARGE_OBJECT |-> "clob", BINARY_LARGE_OBJECT |-> "blob",
   NUMERIC |-> "decimal", DOUBLE_PRECISION |-> "double"]

\* the map literal of toGoMappers
GoMappersInit ==
  (mdb.CHAR :> "strip") @@ (mdb.VARCHAR :> "strip") @@ (mdb.CLOB :> "strip")
  @@ (mdb.BLOB :> "toByteArray") @@ (mdb.DECIMAL :> "toDouble")
  @@ ("smallint" :> "toInt16") @@ ("int" :> "toInt32") @@ ("wrd" :> "toInt32")
  @@ ("bigint" :> "toInt64") @@ ("hugeint" :> "toInt64")
  @@ ("serial" :> "toInt64") @@ ("real" :> "toFloat")
  @@ (mdb.DOUBLE :> "toDouble") @@ ("boolean" :> "toBool")
  @@ ("date" :> "toDate") @@ ("time" :> "toTime")
  @@ ("timestamp" :> "toTimestamp") @@ ("timestamptz" :> "toTimestampTz")
  @@ ("interval" :> "strip") @@ ("month_interval" :> "strip")
  @@ ("sec_interval" :> "strip") @@ ("tinyint" :> "toInt8")
  @@ ("shortint" :> "toInt16") @@ ("mediumint" :> "toInt32")
  @@ ("longint" :> "toInt64") @@ ("float" :> "toFloat")
  @@ ("uuid" :> "stripNoQuote")

\* the slice literal of timeFormats
TimeFormatsInit ==
  <<B("2006-01-02"),
    B("2006-01-02 15:04:05"),
    B("2006-01-02 15:04:05 -0700"),
    B("2006-01-02 15:04:05 -0700 MST"),
    B("Mon Jan 2 15:04:05 -0700 MST 2006"),
    B("15:04:05")>>

TimeMappers == {"toDate", "toTime", "toTimestamp", "toTimestampTz"}

\* the zero time.Time: January 1, year 1, 00:00:00 UTC
ZeroTime == [ZeroFields EXCEPT !.year = 1, !.month = 1, !.day = 1, !.utc = TRUE]

\* a converter of the decode table that does not parse a time, applied to v
applyToGo(mapper, v) ==
  CASE mapper = "strip" -> strip(v)
    [] mapper = "stripNoQuote" -> stripNoQuote(v)
    [] mapper = "toByteArray" -> toByteArray(v)
    [] mapper = "toDouble" -> toDouble(v)
    [] mapper = "toFloat" -> toFloat(v)
    [] mapper = "toInt8" -> toInt8(v)
    [] mapper = "toInt16" -> toInt16(v)
    [] mapper = "toInt32" -> toInt32(v)
    [] mapper = "toInt64" -> toInt64(v)
    [] mapper = "toBool" -> toBool(v)

\* toDate, toTime, toTimestamp, toTimestampTz on what parseTime returned
timeResult(mapper, p) ==
  IF mapper = "toDate" THEN
    IF p.err # "" THEN Fail("nil", <<>>, p.err)
    ELSE Ok("monetdb.Date", [Year |-> p.t.year, Month |-> p.t.month, Day |-> p.t.day])
  ELSE IF mapper = "toTime" THEN
    IF p.err # "" THEN Fail("nil", <<>>, p.err)
    ELSE Ok("monetdb.Time", [Hour |-> p.t.hour, Min |-> p.t.min, Sec |-> p.t.sec])
  ELSE IF p.err # "" THEN Fail("time.Time", ZeroTime, p.err)
  ELSE Ok("time.Time", p.t)

\* the result of a call is stored; a panic ends the process
Return(r) ==
  /\ ret' = r
  /\ pc' = IF r.kind = "panic" THEN "crashed" ELSE "done"
  /\ hist' = IF hist.fn = "" /\ r.kind # "panic"
             THEN [fn |-> fn, value |-> value, dataType |-> dataType, ret |-> r]
             ELSE hist

\* convertToGo(value, dataType), up to the converter's return or, for the
\* date and time converters, up to the entry of parseTime's loop
ConvertToGo ==
  /\ pc = "call" /\ fn = "convertToGo"
  /\ IF dataType \notin DOMAIN toGoMappers
     THEN Return(Fail("nil", <<>>, "Type not supported")) /\ UNCHANGED fidx
     ELSE IF toGoMappers[dataType] \in TimeMappers
       THEN IF timeFormats = <<>>
            THEN Return(timeResult(toGoMappers[dataType],
                                   [err |-> "", t |-> ZeroTime]))
                 /\ UNCHANGED fidx
            ELSE pc' = "parseTime" /\ fidx' = 1 /\ UNCHANGED <<ret, hist>>
       ELSE Return(applyToGo(toGoMappers[dataType], TrimSpace(value)))
            /\ UNCHANGED fidx
  /\ UNCHANGED <<tables, calls, fn, value, dataType, orig>>

\* a parseTime that returns the error of the first layout that fails
ParseTimeFirstOnly ==
  /\ pc = "parseTime"
  /\ Return(timeResult(toGoMappers[dataType],
                       timeParse(timeFormats[fidx], TrimSpace(value))))
  /\ UNCHANGED <<tables, calls, fn, value, dataType, fidx, orig>>

\* a parseTime that moves the layout that parsed to the front of timeFormats
ParseTimePromote ==
  /\ pc = "parseTime"
  /\ LET Tried(p) ==
           IF p.err = "" \/ fidx = Len(timeFormats)
           THEN /\ Return(timeResult(toGoMappers[dataType], p))
                /\ timeFormats' =
                     IF p.err = ""
                     THEN <<timeFormats[fidx]>>
                          \o SubSeq(timeFormats, 1, fidx - 1)
                          \o SubSeq(timeFormats, fidx + 1, Len(timeFormats))
                     ELSE timeFormats
                /\ UNCHANGED fidx
           ELSE fidx' = fidx + 1 /\ UNCHANGED <<pc, ret, hist, timeFormats>>
     IN  Tried(timeParse(timeFormats[fidx], TrimSpace(value)))
  /\ UNCHANGED <<toGoMappers, toMonetMappers, calls, fn, value, dataType, orig>>

\* one iteration of parseTime's loop: the layout at fidx is tried; the first
\* success returns, the failure of the last layout returns its error
ParseTimeStep ==
  /\ pc = "parseTime"
  /\ LET Tried(p) ==
           IF p.err = "" \/ fidx = Len(timeFormats)
           THEN Return(timeResult(toGoMappers[dataType], p)) /\ UNCHANGED fidx
           ELSE fidx' = fidx + 1 /\ UNCHANGED <<pc, ret, hist>>
     IN  Tried(timeParse(timeFormats[fidx], TrimSpace(value)))
  /\ UNCHANGED <<tables, calls, fn, value, dataType, orig>>

-----------------------------------------------------------------------------
(* fmt.Sprintf("%v", v) and the encoders.  A Go value is a record          *)
(* [type, native, val]: type is reflect.TypeOf(v).String(), native whether  *)
(* the value's type is the built-in or driver type of that name (a type of  *)
(* another package may print the same name), val its content.               *)

NilValue == [type |-> "<nil>", native |-> TRUE, val |-> <<>>]

GoValue(type, val) == [type |-> type, native |-> TRUE, val |-> val]

\* the decimal digits of a natural number, as bytes
RECURSIVE Itoa(_)
Itoa(n) == IF n < 10 THEN <<48 + n>> ELSE Append(Itoa(n \div 10), 48 + (n % 10))

RECURSIVE Zeros(_)
Zeros(k) == IF k <= 0 THEN <<>> ELSE <<48>> \o Zeros(k - 1)

\* %0wd of an integer
PadInt(n, w) ==
  IF n < 0 THEN <<45>> \o Zeros(w - 1 - Len(Itoa(-n))) \o Itoa(-n)
  ELSE Zeros(w - Len(Itoa(n))) \o Itoa(n)

Digits(d) == [i \in 1..Len(d) |-> 48 + d[i]]

\* %v of a sized integer
FormatInt(i) == (IF i.neg THEN <<45>> ELSE <<>>) \o Digits(i.mag)

\* %v of a float whose shortest digits are f.mant: %g, which takes the
\* exponent form when the exponent is below -4 or at least 6
FormatFloat(f) ==
  LET sign == IF f.neg THEN <<45>> ELSE <<>>
      x == f.exp - 1
      n == Len(f.mant)
  IN IF f.class = "nan" THEN B("NaN")
     ELSE IF f.class = "inf" THEN (IF f.neg THEN B("-Inf") ELSE B("+Inf"))
     ELSE IF n = 0 THEN sign \o B("0")
     ELSE IF x < -4 \/ x >= 6 THEN
       sign \o Digits(SubSeq(f.mant, 1, 1))
            \o (IF n > 1 THEN B(".") \o Digits(SubSeq(f.mant, 2, n)) ELSE <<>>)
            \o B("e") \o (IF x < 0 THEN B("-") ELSE B("+"))
            \o PadInt(IF x < 0 THEN -x ELSE x, 2)
     ELSE IF f.exp <= 0 THEN sign \o B("0.") \o Zeros(-f.exp) \o Digits(f.mant)
     ELSE IF n <= f.exp THEN sign \o Digits(f.mant) \o Zeros(f.exp - n)
     ELSE sign \o Digits(SubSeq(f.mant, 1, f.exp)) \o B(".")
               \o Digits(SubSeq(f.mant, f.exp + 1, n))

\* time.Time.String(): "2006-01-02 15:04:05.999999999 -0700 MST"
FormatTime(t) ==
  LET off == IF t.utc \/ ~t.zset THEN 0 ELSE t.zoff
      a == (IF off < 0 THEN -off ELSE off) \div 60
      offText == (IF off < 0 THEN B("-") ELSE B("+"))
                 \o PadInt(a \div 60, 2) \o PadInt(a % 60, 2)
      name == IF t.utc \/ ~t.zset THEN B("UTC")
              ELSE IF t.zname = <<>> THEN offText ELSE t.zname
      frac == DropTrailZeros([i \in 1..9 |-> PadInt(t.nsec, 9)[i] - 48])
  IN PadInt(t.year, 4) \o B("-") \o PadInt(t.month, 2) \o B("-") \o PadInt(t.day, 2)
     \o B(" ") \o PadInt(t.hour, 2) \o B(":") \o PadInt(t.min, 2) \o B(":")
     \o PadInt(t.sec, 2)
     \o (IF frac = <<>> THEN <<>> ELSE B(".") \o Digits(frac))
     \o B(" ") \o offText \o B(" ") \o name

\* fmt.Sprintf("%v", v) for the values the encode table sends to toString
\* and toQuotedString
Sprintv(v) ==
  CASE v.type = "bool" -> (IF v.val THEN B("true") ELSE B("false"))
    [] v.type \in {"int", "int8", "int16", "int32", "int64"} -> FormatInt(v.val)
    [] v.type \in {"float32", "float64"} -> FormatFloat(v.val)
    [] v.type = "string" -> v.val
    [] v.type = "time.Time" -> FormatTime(v.val)

\* toString(v)
toString(v) == Ok("string", Sprintv(v))

\* toQuotedString(v)
toQuotedString(v) == Ok("string", quoteText(Sprintv(v)))

\* toNull(v)
toNull(v) == Ok("string", B("NULL"))

\* toByteString(v): the type switch takes []uint8 only
toByteString(v) ==
  IF v.type = "[]uint8" /\ v.native THEN toQuotedString(GoValue("string", v.val))
  ELSE Fail("string", <<>>, "Unsupported type")

\* toDateTimeString(v): the type switch takes the driver's Time and Date only
toDateTimeString(v) ==
  IF v.type = "monetdb.Time" /\ v.native THEN
    toQuotedString(GoValue("string",
      PadInt(v.val.Hour, 2) \o B(":") \o PadInt(v.val.Min, 2) \o B(":")
      \o PadInt(v.val.Sec, 2)))
  ELSE IF v.type = "monetdb.Date" /\ v.native THEN
    toQuotedString(GoValue("string",
      PadInt(v.val.Year, 4) \o B("-") \o PadInt(v.val.Month, 2) \o B("-")
      \o PadInt(v.val.Day, 2)))
  ELSE Fail("string", <<>>, "Unsupported type")

\* the map literal of toMonetMappers
MonetMappersInit ==
  ("int" :> "toString") @@ ("int8" :> "toString") @@ ("int16" :> "toString")
  @@ ("int32" :> "toString") @@ ("int64" :> "toString")
  @@ ("float" :> "toString") @@ ("float32" :> "toString")
  @@ ("float64" :> "toString") @@ ("bool" :> "toString")
  @@ ("string" :> "toQuotedString") @@ ("nil" :> "toNull")
  @@ ("[]uint8" :> "toByteString") @@ ("time.Time" :> "toQuotedString")
  @@ ("monetdb.Time" :> "toDateTimeString")
  @@ ("monetdb.Date" :> "toDateTimeString")

\* a converter of the encode table applied to v
applyToMonet(mapper, v) ==
  CASE mapper = "toString" -> toString(v)
    [] mapper = "toQuotedString" -> toQuotedString(v)
    [] mapper = "toNull" -> toNull(v)
    [] mapper = "toByteString" -> toByteString(v)
    [] mapper = "toDateTimeString" -> toDateTimeString(v)

\* the type name without the nil case
typeNameOfAny(v) == v.type

\* reflect.TypeOf(value), and "nil" for the nil interface
typeName(v) == IF v = NilValue THEN "nil" ELSE v.type

\* convertToMonet(value)
ConvertToMonet ==
  /\ pc = "call" /\ fn = "convertToMonet"
  /\ IF typeName(value) \in DOMAIN toMonetMappers
     THEN Return(applyToMonet(toMonetMappers[typeName(value)], value))
     ELSE Return(Fail("string", <<>>, "Type not supported"))
  /\ UNCHANGED <<tables, calls, fn, value, dataType, fidx, orig>>

-----------------------------------------------------------------------------
(* The callers: the result-set reader hands convertToGo a column text and  *)
(* its declared tag, the statement layer hands convertToMonet a parameter. *)

MaxLen == 3

MaxPad == 1

\* bytes of the exhaustive texts: backslash, single and double quote, space,
\* "a", the two bytes of U+00E9 (each invalid alone) and the invalid byte FF
Alphabet == {92, 39, 34, 32, 97, 195, 169, 255}

Strings(n) == UNION {[1..k -> Alphabet] : k \in 0..n}

EscapeSamples ==
  {B("it's"), B("it\\'s"), B("\\x41\\u00e9"), B("\\101\\n"), B("\\U0001F600"),
   B("\\q"), B("\\x4"), B("\\400"), B("\\ud800"), B("'it\\'s'"), B("\"a\\\"b\""),
   B("' a '")}

TextInputs == Strings(MaxLen) \cup EscapeSamples

QuotedTextTags ==
  {"char", "varchar", "clob", "interval", "month_interval", "sec_interval"}

TextTags == QuotedTextTags \cup {"uuid", "blob"}

AliasNames ==
  {"character", "character_varying", "character_large_object",
   "binary_large_object", "numeric", "double_precision"}

\* the canonical tag each full name stands for
CanonicalOf ==
  ("character" :> "char") @@ ("character_varying" :> "varchar")
  @@ ("character_large_object" :> "clob") @@ ("binary_large_object" :> "blob")
  @@ ("numeric" :> "decimal") @@ ("double_precision" :> "double")

TagUniverse == DOMAIN GoMappersInit \cup AliasNames \cup {"json", ""}

\* the limits 2^7, 2^8, ..., 2^64 with their last digit moved by -1, 0, +1
IntTokens ==
  {sg \o Zeros(z) \o Digits([Pow2[k] EXCEPT ![Len(Pow2[k])] = @ + d]) :
     sg \in {<<>>, B("+"), B("-")}, z \in {0, 2},
     k \in {7, 8, 15, 16, 31, 32, 63, 64}, d \in {-1, 0, 1}}
  \cup {B("0"), B("-0"), B("7"), B("-42"), B("99999999999999999999999"),
        B("12a"), B("1_0"), B("0x10"), B("1 2"), B("-"), B("+"), B("300x")}

BoolTokens ==
  {B("true"), B("TRUE"), B("True"), B("t"), B("T"), B("1"), B("false"),
   B("FALSE"), B("False"), B("f"), B("F"), B("0"), B("yes"), B("no"), B("tRUE"),
   B("tr"), B("Y"), B("2"), B("on"), B("truee")}

FloatTokens ==
  {B("1.5"), B("-2.25"), B(".5"), B("5."), B("1e10"), B("1E-3"), B("1e400"),
   B("1e39"), B("1.8e308"), B("Inf"), B("-infinity"), B("NaN"), B("+nan"),
   B("0x1p-2"), B("0x1.8"), B("1_0.5"), B("1..5"), B("1e"), B("."), B("12,5")}

TimeTokens ==
  {B("2006-01-02"), B("2006-01-02 15:04:05"), B("2006-01-02 15:04:05 -0700"),
   B("2006-01-02 15:04:05 -0700 MST"), B("Mon Jan 2 15:04:05 -0700 MST 2006"),
   B("15:04:05"), B("2024-02-29 23:59:59.25"), B("2023-02-29"),
   B("2006-13-02"), B("2006-01-02  5:04:05 +0530 CEST"),
   B("2006-01-02 15:04:05 -0700 UTC"), B("tue feb 7 15:04:05 -0700 GMT+3 2006"),
   B("15:04:60"), B("24:00:00"), B("2006-01-02 15:04"), B("2006-01-02T15:04:05"),
   B("2006-01-02 15:04:05 0700"), B("2006-01-02 15:04:05 -0700 Mst"),
   B("06-01-02"), B("2006-1-2"), B("2006-01-02 15:04:05 -0700 MST 2006")}

QuotedTokens ==
  {<<>>, B("'"), B("''"), B("'a'"), B("' a '"), B("'it\\'s'"), B("'it's'"),
   B("\"a\\\"b\""), B("'\\\\'"), B("'\\q'"), B("a"), B("ab"), B("'2006-01-02'"),
   B("'127'")}

Tokens == IntTokens \cup BoolTokens \cup FloatTokens \cup TimeTokens \cup QuotedTokens

RECURSIVE Rep(_, _)
Rep(b, k) == IF k <= 0 THEN <<>> ELSE <<b>> \o Rep(b, k - 1)

\* the tokens as they come off the wire: inside spaces and line ends
DecodeTexts ==
  {Rep(32, i) \o t \o Rep(10, j) : t \in Tokens, i \in 0..MaxPad, j \in 0..MaxPad}

IntLit(neg, str) == IntVal(neg, D(str))

FloatLit(neg, str, exp) == FloatVal("dec", neg, D(str), exp)

SampleTime ==
  [ZeroFields EXCEPT !.year = 2024, !.month = 2, !.day = 29, !.hour = 23,
                     !.min = 59, !.sec = 59, !.nsec = 250000000,
                     !.zset = TRUE, !.zoff = 19800, !.zname = B("IST")]

\* values of every shape the encode table names
SupportedValues ==
  {NilValue}
  \cup {GoValue("bool", b) : b \in BOOLEAN}
  \cup {GoValue(t, IntLit(n, m)) :
          t \in {"int", "int8", "int16", "int32", "int64"},
          n \in BOOLEAN, m \in {"1", "42", "127"}}
  \cup {GoValue(t, f) : t \in {"float32", "float64"},
          f \in {FloatLit(FALSE, "15", 1), FloatLit(TRUE, "225", 1), FloatLit(FALSE, "1", 7),
                 FloatLit(FALSE, "1", -6), ZeroFloat, FloatVal("inf", TRUE, <<>>, 0),
                 FloatVal("nan", FALSE, <<>>, 0)}}
  \cup {GoValue(t, x) : t \in {"string", "[]uint8"}, x \in Strings(MaxLen - 1) \cup EscapeSamples}
  \cup {GoValue("monetdb.Date", [Year |-> y, Month |-> m, Day |-> d]) :
          y \in {33, 2006}, m \in {1, 12}, d \in {2, 31}}
  \cup {GoValue("monetdb.Time", [Hour |-> h, Min |-> m, Sec |-> x]) :
          h \in {0, 15}, m \in {4, 59}, x \in {5, 0}}
  \cup {GoValue("time.Time", t) : t \in {ZeroTime, SampleTime}}

\* values of shapes the encode table does not name, and a type of another
\* package whose printed name is that of the driver's Time
ForeignValues ==
  {GoValue(t, IntLit(FALSE, "7")) :
     t \in {"uint", "uint8", "uint16", "uint32", "uint64", "main.MyInt", "*int"}}
  \cup {GoValue(t, B("x")) : t \in {"main.MyString", "*string", "[]string", "json.RawMessage"}}
  \cup {GoValue(t, [Year |-> 2006, Month |-> 1, Day |-> 2]) :
          t \in {"*monetdb.Date", "civil.Date"}}
  \cup {[type |-> "monetdb.Time", native |-> FALSE,
         val |-> [Hour |-> 1, Min |-> 2, Sec |-> 3]]}

EncodeValues == SupportedValues \cup ForeignValues

NoCall == [fn |-> "", value |-> <<>>, dataType |-> "", ret |-> NoRet]

TablesInit ==
  /\ toGoMappers = GoMappersInit
  /\ toMonetMappers = MonetMappersInit
  /\ timeFormats = TimeFormatsInit

\* one call: a column text to decode under a tag, or a parameter to encode
Init ==
  /\ TablesInit
  /\ pc = "call" /\ calls = 1 /\ ret = NoRet /\ fidx = 0 /\ orig = <<>>
  /\ hist = NoCall
  /\ \/ fn = "convertToGo" /\ value \in DecodeTexts /\ dataType \in TagUniverse
     \/ fn = "convertToMonet" /\ value \in EncodeValues /\ dataType = ""

Next == ConvertToGo \/ ParseTimeStep \/ ConvertToMonet

Spec == Init /\ [][Next]_vars

-----------------------------------------------------------------------------
(* A text on its way through the codec: decoded as a column of a textual   *)
(* tag, unquoted, or bound as a string parameter whose literal is then     *)
(* unquoted or decoded again.                                              *)

\* unquote(value)
Unquote ==
  /\ pc = "call" /\ fn = "unquote"
  /\ Return(unquote(value))
  /\ UNCHANGED <<tables, calls, fn, value, dataType, fidx, orig>>

\* the text arrives as a column of the tag
Receive ==
  /\ pc = "start"
  /\ fn' = "convertToGo" /\ pc' = "call"
  /\ UNCHANGED <<tables, calls, value, dataType, ret, fidx, orig, hist>>

\* the text is a string parameter of a statement
Bind ==
  /\ pc = "start"
  /\ fn' = "convertToMonet" /\ value' = GoValue("string", value) /\ pc' = "call"
  /\ UNCHANGED <<tables, calls, dataType, ret, fidx, orig, hist>>

\* the text is unquoted as it is
CallUnquote ==
  /\ pc = "start"
  /\ fn' = "unquote" /\ pc' = "call"
  /\ UNCHANGED <<tables, calls, value, dataType, ret, fidx, orig, hist>>

\* the literal toQuotedString made, without its outer quotes, is unquoted
UnquoteBody ==
  /\ pc = "done" /\ fn = "convertToMonet" /\ ret.kind = "ok"
  /\ fn' = "unquote" /\ value' = Slice(ret.val, 1, Len(ret.val) - 1)
  /\ pc' = "call" /\ calls' = calls + 1 /\ ret' = NoRet
  /\ UNCHANGED <<tables, dataType, fidx, orig, hist>>

\* the literal toQuotedString made comes back as a column of the tag
DecodeLiteral ==
  /\ pc = "done" /\ fn = "convertToMonet" /\ ret.kind = "ok"
  /\ fn' = "convertToGo" /\ value' = ret.val
  /\ pc' = "call" /\ calls' = calls + 1 /\ ret' = NoRet
  /\ UNCHANGED <<tables, dataType, fidx, orig, hist>>

InitText ==
  /\ TablesInit
  /\ pc = "start" /\ calls = 1 /\ fn = "" /\ ret = NoRet /\ fidx = 0
  /\ hist = NoCall
  /\ value \in TextInputs /\ orig = value /\ dataType \in TextTags

NextText ==
  \/ Receive \/ Bind \/ CallUnquote \/ UnquoteBody \/ DecodeLiteral
  \/ ConvertToGo \/ ConvertToMonet \/ Unquote

SpecText == InitText /\ [][NextText]_vars

-----------------------------------------------------------------------------
(* A caller that makes one call after another, each with arguments of its  *)
(* choice, until a call panics.                                            *)

MaxCalls == 3

CallTexts ==
  {<<>>, B(" 'it\\'s' "), B("127"), B("128"), B("true"), B("1.5"),
   B("2006-01-02"), B("15:04:05"), B("15:04:61")}

CallTags ==
  {"varchar", "blob", "tinyint", "boolean", "double", "date", "timestamp", "json"}

CallValues ==
  {NilValue, GoValue("bool", TRUE), GoValue("int8", IntLit(TRUE, "128")),
   GoValue("float64", FloatLit(FALSE, "15", 1)), GoValue("string", B("it's")),
   GoValue("[]uint8", B("a\\")), GoValue("time.Time", SampleTime),
   GoValue("monetdb.Date", [Year |-> 2006, Month |-> 1, Day |-> 2]),
   GoValue("uint8", IntLit(FALSE, "7")),
   [type |-> "monetdb.Time", native |-> FALSE,
    val |-> [Hour |-> 1, Min |-> 2, Sec |-> 3]]}

\* the caller's next call of convertToGo
CallConvertToGo ==
  /\ pc \in {"idle", "done"} /\ calls < MaxCalls
  /\ fn' = "convertToGo" /\ value' \in CallTexts /\ dataType' \in CallTags
  /\ pc' = "call" /\ calls' = calls + 1 /\ ret' = NoRet
  /\ UNCHANGED <<tables, fidx, orig, hist>>

\* the caller's next call of convertToMonet
CallConvertToMonet ==
  /\ pc \in {"idle", "done"} /\ calls < MaxCalls
  /\ fn' = "convertToMonet" /\ value' \in CallValues /\ dataType' = ""
  /\ pc' = "call" /\ calls' = calls + 1 /\ ret' = NoRet
  /\ UNCHANGED <<tables, fidx, orig, hist>>

InitCalls ==
  /\ TablesInit
  /\ pc = "idle" /\ calls = 0 /\ fn = "" /\ value = <<>> /\ dataType = ""
  /\ ret = NoRet /\ fidx = 0 /\ orig = <<>> /\ hist = NoCall

NextCalls ==
  \/ CallConvertToGo \/ CallConvertToMonet
  \/ ConvertToGo \/ ParseTimeStep \/ ConvertToMonet

SpecCalls == InitCalls /\ [][NextCalls]_vars

-----------------------------------------------------------------------------
(* Properties of the codec *)

Returned(f) == pc = "done" /\ fn = f

\* C1: convertToGo is total: under every tag of the decode table and for
\* every text, the empty and the one-character text included, the call
\* returns a value or an error and never aborts.
C1_DecodeTotal ==
  (fn = "convertToGo" /\ dataType \in DOMAIN toGoMappers
   /\ pc \notin {"call", "parseTime"})
  => (pc = "done" /\ ret.kind \in {"ok", "err"})

\* C2: a full-name or alias tag is not rejected as unsupported and gives,
\* for every text, what its canonical tag gives.
C2_AliasAsCanonical ==
  (Returned("convertToGo") /\ dataType \in AliasNames)
  => /\ ret.err # "Type not supported"
     /\ ret = applyToGo(GoMappersInit[CanonicalOf[dataType]], TrimSpace(value))

\* C3: for every string s, unquote of the body of toQuotedString(s), the
\* literal without its outer quotes, succeeds and returns exactly s.
C3_EscapeRoundTrip ==
  (Returned("unquote") /\ hist.fn = "convertToMonet")
  => ret = Ok("string", orig)

\* C4: under a quoted-text tag convertToGo(raw, tag) is unquote of the
\* trimmed token less its first and last character, what lies between the
\* quotes being kept as it is; so decoding toQuotedString(s) gives s.
C4_QuotedTextDecode ==
  (Returned("convertToGo") /\ dataType \in QuotedTextTags)
  => /\ (hist.fn = "convertToGo" /\ Len(TrimSpace(value)) >= 2)
        => ret = unquote(Slice(TrimSpace(value), 1, Len(TrimSpace(value)) - 1))
     /\ hist.fn = "convertToMonet" => ret = Ok("string", orig)

\* whether the call in progress is one of a date or time tag
TimeCall ==
  /\ fn = "convertToGo" /\ dataType \in DOMAIN toGoMappers
  /\ toGoMappers[dataType] \in TimeMappers

\* whether the k-th layout parses the call's text
Parses(k) == timeParse(timeFormats[k], TrimSpace(value)).err = ""

\* the layouts that parse the call's text
Parsing == {k \in 1..Len(timeFormats) : Parses(k)}

\* what parseTime returns when the layouts of P parse the text
ReturnedFor(P) ==
  IF P = {}
  THEN /\ ret.kind = "err"
       /\ ret.err = timeParse(timeFormats[Len(timeFormats)],
                              TrimSpace(value)).err
  ELSE /\ fidx = Min(P)
       /\ ret = timeResult(toGoMappers[dataType],
                           timeParse(timeFormats[Min(P)], TrimSpace(value)))

\* parseTime has found no earlier layout to parse the text, and what it
\* returns is the result of the first layout that parses, or, when none
\* does, the error of the last one
FirstMatchReturned ==
  /\ pc = "parseTime" => \A k \in 1..(fidx - 1) : ~Parses(k)
  /\ (pc = "done" /\ TimeCall) => ReturnedFor(Parsing)

\* how much a layout names: the date, the time of day, the zone offset, the
\* zone name, the day of the week
SpecificityOf(layout) ==
  Cardinality({std \in {Std.LongYear, Std.Hour, Std.NumTZ, Std.TZ, Std.WeekDay} :
                 \E i \in 0..Len(layout) : HasPrefix(From(layout, i), std)})

\* how much each layout of timeFormats names
Specificity == [k \in 1..Len(TimeFormatsInit) |-> SpecificityOf(TimeFormatsInit[k])]

TagWidth ==
  ("tinyint" :> 8) @@ ("smallint" :> 16) @@ ("shortint" :> 16)
  @@ ("int" :> 32) @@ ("mediumint" :> 32) @@ ("wrd" :> 32)
  @@ ("bigint" :> 64) @@ ("longint" :> 64) @@ ("serial" :> 64)
  @@ ("hugeint" :> 64)

\* 2^(w-1) - 1 and 2^(w-1), in decimal digits
IntMax ==
  (8 :> D("127")) @@ (16 :> D("32767")) @@ (32 :> D("2147483647"))
  @@ (64 :> D("9223372036854775807"))

IntMinMagnitude ==
  (8 :> D("128")) @@ (16 :> D("32768")) @@ (32 :> D("2147483648"))
  @@ (64 :> D("9223372036854775808"))

IntTypeName == (8 :> "int8") @@ (16 :> "int16") @@ (32 :> "int32") @@ (64 :> "int64")

Unsigned(t) == IF t # <<>> /\ t[1] \in {43, 45} THEN Tail(t) ELSE t

\* a base-10 integer text: an optional sign and one digit or more
IsIntText(t) ==
  Unsigned(t) # <<>> /\ \A i \in 1..Len(Unsigned(t)) : IsDigit(Unsigned(t)[i])

Magnitude(t) == Norm([i \in 1..Len(Unsigned(t)) |-> Unsigned(t)[i] - 48])

InRange(t, w) ==
  IF t[1] = 45 THEN ~MagLess(IntMinMagnitude[w], Magnitude(t))
  ELSE ~MagLess(IntMax[w], Magnitude(t))

\* C6: under an integer tag of width w a base-10 integer text n decodes to
\* n when -2^(w-1) <= n <= 2^(w-1)-1 and to an out-of-range error otherwise,
\* never to a wrapped or truncated value.
C6_IntWidthBoundary ==
  (Returned("convertToGo") /\ dataType \in DOMAIN TagWidth
   /\ IsIntText(TrimSpace(value)))
  => IF InRange(TrimSpace(value), TagWidth[dataType])
     THEN ret = Ok(IntTypeName[TagWidth[dataType]],
                   IntVal(TrimSpace(value)[1] = 45, Magnitude(TrimSpace(value))))
     ELSE ret = Fail(IntTypeName[TagWidth[dataType]], ZeroInt, "value out of range")

C6_TinyintBoundary ==
  /\ Returned("convertToGo") /\ dataType = "tinyint"
  /\ TrimSpace(value) = B("128") /\ ret.kind = "err"

\* the shapes of a Value, by the name of their type
ValueVariants ==
  {"bool", "int8", "int16", "int32", "int64", "float32", "float64", "string",
   "[]uint8", "monetdb.Date", "monetdb.Time", "time.Time"}

\* the names the encode table has an entry for
EncodeNames == ValueVariants \cup {"int", "float", "nil"}

\* C7: convertToMonet succeeds for every Value variant, returns exactly
\* NULL for nil, and returns an unsupported-type error, never a text, for a
\* value whose type has no entry in the encode table.
C7_EncoderDispatch ==
  Returned("convertToMonet")
  => /\ value = NilValue => ret = Ok("string", B("NULL"))
     /\ (value.native /\ value.type \in ValueVariants) => ret.kind = "ok"
     /\ (value # NilValue /\ value.type \notin EncodeNames)
        => ret = Fail("string", <<>>, "Type not supported")

C7_UnsignedRejected ==
  Returned("convertToMonet") /\ value.type = "uint8" /\ ret.kind = "err"

ListedTrue == {B("true"), B("TRUE"), B("t"), B("T"), B("1")}

ListedFalse == {B("false"), B("FALSE"), B("f"), B("F"), B("0")}

\* C8 as stated: under the boolean tag the trimmed tokens true, TRUE, t, T,
\* 1 give true, false, FALSE, f, F, 0 give false, and every other token
\* gives an error.
C8_ListedTokensOnly ==
  (Returned("convertToGo") /\ dataType = "boolean")
  => IF TrimSpace(value) \in ListedTrue THEN ret = Ok("bool", TRUE)
     ELSE IF TrimSpace(value) \in ListedFalse THEN ret = Ok("bool", FALSE)
     ELSE ret.kind = "err"

\* C8: under the boolean tag the trimmed tokens true, TRUE, True, t, T, 1
\* give true, false, FALSE, False, f, F, 0 give false, and every other
\* token gives an error and no boolean value.
C8_BooleanGrammar ==
  (Returned("convertToGo") /\ dataType = "boolean")
  => IF TrimSpace(value) \in ListedTrue \cup {B("True")}
       THEN ret = Ok("bool", TRUE)
     ELSE IF TrimSpace(value) \in ListedFalse \cup {B("False")}
       THEN ret = Ok("bool", FALSE)
     ELSE ret = Fail("bool", FALSE, "invalid syntax")

C8_TitleCaseAccepted ==
  /\ Returned("convertToGo") /\ dataType = "boolean"
  /\ TrimSpace(value) = B("True") /\ ret = Ok("bool", TRUE)

\* the unescaper as its grammar reads: a backslash starts an escape, which
\* is decoded or is an error; any other byte is copied
RECURSIVE GrammarUnquote(_, _)
GrammarUnquote(s, buf) ==
  IF s = <<>> THEN Ok("string", buf)
  ELSE IF s[1] # 92 THEN GrammarUnquote(Tail(s), Append(buf, s[1]))
  ELSE LET u == UnquoteChar(s, 39) IN
       IF ~u.ok THEN Fail("string", <<>>, "invalid syntax")
       ELSE GrammarUnquote(u.tail,
              IF u.value < 128 \/ ~u.multibyte
              THEN Append(buf, u.value % 256)
              ELSE buf \o EncodeRune(u.value))

\* C9: unquote copies what is outside an escape as it is and fails only at
\* a backslash that starts no escape; a single quote or any other plain
\* character is taken alike with or without a backslash elsewhere, and a
\* string with no backslash is returned unchanged.
C9_UnescaperGrammar ==
  (Returned("unquote") /\ hist.fn = "unquote")
  => /\ ret = GrammarUnquote(value, <<>>)
     /\ ~contains(value, 92) => ret = Ok("string", value)

\* C10: whatever calls came before, those that returned errors included,
\* the two tables and the layout list are as they were made, and a call
\* returns what the first call with the same arguments returned.
C10_CallIndependence ==
  /\ toGoMappers = GoMappersInit
  /\ toMonetMappers = MonetMappersInit
  /\ timeFormats = TimeFormatsInit
  /\ (pc = "done" /\ fn = hist.fn /\ value = hist.value
      /\ dataType = hist.dataType)
     => ret = hist.ret

C10_RepeatedAfterError ==
  /\ pc = "done" /\ calls >= 3 /\ hist.ret.kind = "err"
  /\ fn = hist.fn /\ value = hist.value /\ dataType = hist.dataType

=============================================================================
